---- MODULE Spec2Model ----
(***************************************************************************)
(* Catalog text parser (processAnimeData), ingestion (migrateData) and the *)
(* episode access-token protocol (POST /api/stream/token,                  *)
(* GET /api/stream/:episodeId, GET /api/animes/:type) of the streanime     *)
(* backend.  A JavaScript string is modelled as a sequence of              *)
(* one-character strings, so that trimming, splitting, pattern matching,   *)
(* slug computation and number formatting are computed and not assumed.    *)
(***************************************************************************)
EXTENDS Integers, Sequences, FiniteSets, TLC

VARIABLES
  \* ---- one run of processAnimeData ----
  data,          \* the lines of the input text (data.trim().split('\n'))
  isAiring,      \* the section flag
  i,             \* loop index (1-based; the code's i + 1)
  animeMap,      \* the working catalog, a JS object keyed by id
  currentAnime,  \* << >> = null (NoContext), <<id>> = the anime of that id
  result,        \* the returned animeArray
  pc,            \* "parse", "done" for the parser; "serve" for the server
  \* ---- the server ----
  variant,       \* which server build runs: "server.js" or "part_000"
  JWT_SECRET,    \* process.env.JWT_SECRET
  TOKEN_EXPIRES, \* process.env.TOKEN_EXPIRES
  now,           \* Math.floor(Date.now() / 1000)
  store,         \* the Anime collection
  issued,        \* tokens handed out by POST /api/stream/token
  last,          \* the last request and its response
  okLog,         \* history: the first redemption of each token that passed verification
  rejLog,        \* history: the issued tokens that were refused as expired
  \* ---- migrateData ----
  runs           \* the runs of migrateData in progress, each with its list of
                 \* records, its loop index and the point it has reached

parserVars == <<data, isAiring, i, animeMap, currentAnime, result>>
serverVars == <<variant, JWT_SECRET, TOKEN_EXPIRES, now, store, issued, last, okLog, rejLog>>
vars == <<data, isAiring, i, animeMap, currentAnime, result, pc,
          variant, JWT_SECRET, TOKEN_EXPIRES, now, store, issued, last, okLog,
          rejLog, runs>>

-----------------------------------------------------------------------------
(* Bounds *)

MaxLines == 3
MaxTime == 2
MaxTokens == 1

\* the longest title name of the runs that exercise the slug
MaxName == 4

-----------------------------------------------------------------------------
(* Characters and strings *)

Digits == <<"0","1","2","3","4","5","6","7","8","9">>

UpperCase == <<"A","B","C","D","E","F","G","H","I","J","K","L","M",
               "N","O","P","Q","R","S","T","U","V","W","X","Y","Z">>

LowerCase == <<"a","b","c","d","e","f","g","h","i","j","k","l","m",
               "n","o","p","q","r","s","t","u","v","w","x","y","z">>

\* \d
IsDigit(c) == \E k \in 1..10 : Digits[k] = c

DigitVal(c) == (CHOOSE k \in 1..10 : Digits[k] = c) - 1

\* \s
IsSpace(c) == c \in {" ", "\t"}

\* [a-z0-9]
IsLowerAlnum(c) == IsDigit(c) \/ \E k \in 1..26 : LowerCase[k] = c

SetMin(S) == CHOOSE x \in S : \A y \in S : x <= y

SetMax(S) == CHOOSE x \in S : \A y \in S : x >= y

\* String.prototype.trim
trim(s) ==
  LET idx == {k \in 1..Len(s) : ~IsSpace(s[k])}
  IN  IF idx = {} THEN << >> ELSE SubSeq(s, SetMin(idx), SetMax(idx))

\* String.prototype.toLowerCase
toLowerCase(s) ==
  [k \in 1..Len(s) |->
     IF \E j \in 1..26 : UpperCase[j] = s[k]
     THEN LowerCase[CHOOSE j \in 1..26 : UpperCase[j] = s[k]]
     ELSE s[k]]

\* String.prototype.includes for a one-character needle
includes(s, c) == \E k \in 1..Len(s) : s[k] = c

\* parseInt on a string that starts with decimal digits: the value of the
\* longest digit prefix (leading zeros allowed)
RECURSIVE parseIntDigits(_)
parseIntDigits(s) ==
  IF s = << >> THEN 0
  ELSE 10 * parseIntDigits(SubSeq(s, 1, Len(s) - 1)) + DigitVal(s[Len(s)])

parseInt(s) ==
  LET nd == {k \in 1..Len(s) : ~IsDigit(s[k])}
      n  == IF nd = {} THEN Len(s) ELSE SetMin(nd) - 1
  IN  parseIntDigits(SubSeq(s, 1, n))

\* Number.prototype.toString for a non-negative integer
RECURSIVE toString(_)
toString(n) ==
  IF n < 10 THEN <<Digits[n + 1]>>
  ELSE toString(n \div 10) \o <<Digits[(n % 10) + 1]>>

\* String.prototype.padStart(n, c)
RECURSIVE padStart(_, _, _)
padStart(s, n, c) == IF Len(s) >= n THEN s ELSE padStart(<<c>> \o s, n, c)

\* String.prototype.split(sep) for a one-character separator
RECURSIVE split(_, _)
split(s, sep) ==
  LET at == {k \in 1..Len(s) : s[k] = sep}
  IN  IF at = {} THEN <<s>>
      ELSE <<SubSeq(s, 1, SetMin(at) - 1)>>
             \o split(SubSeq(s, SetMin(at) + 1, Len(s)), sep)

\* Array.prototype.sort((a, b) => key(a) - key(b)), a stable sort; keys[k]
\* is the key of s[k]
SortBy(s, keys) ==
  LET pos(j) == 1 + Cardinality({k \in 1..Len(s) :
                     \/ keys[k] < keys[j]
                     \/ (keys[k] = keys[j] /\ k < j)})
  IN  [p \in 1..Len(s) |-> s[CHOOSE j \in 1..Len(s) : pos(j) = p]]

-----------------------------------------------------------------------------
(* JS objects: a sequence of [key, val] entries in property order.  Keys   *)
(* that are array indices come first in ascending numeric order, the other *)
(* keys follow in insertion order.                                         *)

\* a canonical decimal numeral below 2^32 - 1 (nine digits at most here)
IsArrayIndex(key) ==
  /\ Len(key) >= 1
  /\ \A k \in 1..Len(key) : IsDigit(key[k])
  /\ (Len(key) = 1 \/ key[1] # "0")
  /\ Len(key) <= 9

ObjHas(obj, key) == \E k \in 1..Len(obj) : obj[k].key = key

ObjGet(obj, key) == obj[CHOOSE k \in 1..Len(obj) : obj[k].key = key].val

\* obj[key] = val
ObjSet(obj, key, val) ==
  IF ObjHas(obj, key)
  THEN [k \in 1..Len(obj) |->
          IF obj[k].key = key THEN [key |-> key, val |-> val] ELSE obj[k]]
  ELSE IF IsArrayIndex(key)
  THEN LET before == {k \in 1..Len(obj) :
                        IsArrayIndex(obj[k].key)
                        /\ parseInt(obj[k].key) < parseInt(key)}
           n == Cardinality(before)
       IN  SubSeq(obj, 1, n) \o <<[key |-> key, val |-> val]>>
             \o SubSeq(obj, n + 1, Len(obj))
  ELSE Append(obj, [key |-> key, val |-> val])

\* Object.values(obj)
ObjValues(obj) == [k \in 1..Len(obj) |-> obj[k].val]

-----------------------------------------------------------------------------
(* processAnimeData: the line patterns *)

\* \s*: the end of the longest run of white space that starts right after
\* position k (k itself when the run is empty)
SpaceRunEnd(s, k) ==
  CHOOSE j \in k..Len(s) :
    /\ \A m \in (k + 1)..j : IsSpace(s[m])
    /\ (j = Len(s) \/ ~IsSpace(s[j + 1]))

\* \d*: the end of the longest run of digits that starts right after
\* position k (k itself when the run is empty)
DigitRunEnd(s, k) ==
  CHOOSE j \in k..Len(s) :
    /\ \A m \in (k + 1)..j : IsDigit(s[m])
    /\ (j = Len(s) \/ ~IsDigit(s[j + 1]))

\* (?:\s+\(([^)]+)\))?$ applied to a non-empty rest: << >> or <<day>>
DayGroup(rest) ==
  LET w == SpaceRunEnd(rest, 0)
  IN  IF /\ w >= 1
         /\ Len(rest) >= w + 3
         /\ rest[w + 1] = "("
         /\ rest[Len(rest)] = ")"
         /\ \A m \in (w + 2)..(Len(rest) - 1) : rest[m] # ")"
      THEN <<SubSeq(rest, w + 2, Len(rest) - 1)>>
      ELSE << >>

\* the title pattern with the lazy group (.+?) fixed to the first k characters
TitleAt(line, k, withDay) ==
  LET j    == SpaceRunEnd(line, k)
      rest == SubSeq(line, j + 5, Len(line))
  IN  IF /\ j > k
         /\ j + 4 <= Len(line)
         /\ \A m \in (j + 1)..(j + 4) : IsDigit(line[m])
         /\ (rest = << >> \/ (withDay /\ DayGroup(rest) # << >>))
      THEN <<[name |-> SubSeq(line, 1, k),
              year |-> SubSeq(line, j + 1, j + 4),
              day  |-> IF rest = << >> THEN << >> ELSE DayGroup(rest)]>>
      ELSE << >>

\* the day group accepted in both sections
titleMatch_dayAlways(line, airing) ==
  LET ks == {k \in 1..Len(line) : TitleAt(line, k, TRUE) # << >>}
  IN  IF ks = {} THEN << >> ELSE TitleAt(line, SetMin(ks), TRUE)

\* line.match(/^(.+?)\s+(\d{4})(?:\s+\(([^)]+)\))?$/) when isAiring,
\* line.match(/^(.+?)\s+(\d{4})$/) otherwise: << >> (null) or <<groups>>
titleMatch(line, airing) ==
  LET ks == {k \in 1..Len(line) : TitleAt(line, k, airing) # << >>}
  IN  IF ks = {} THEN << >> ELSE TitleAt(line, SetMin(ks), airing)

\* the episode pattern with the lazy group (.*?) fixed to the first k characters
EpisodeAt(line, k) ==
  LET j  == SpaceRunEnd(line, k)
      d1 == DigitRunEnd(line, j)
      d2 == DigitRunEnd(line, d1 + 1)
      n  == Len(line)
      ok == /\ j > k
            /\ d1 > j
            /\ d1 + 1 <= n
            /\ line[d1 + 1] = "x"
            /\ d2 > d1 + 1
      mp4 == /\ d2 + 5 <= n
             /\ SubSeq(line, d2 + 1, d2 + 4) = <<".","m","p","4">>
             /\ line[d2 + 5] = "|"
  IN  IF ok /\ mp4 /\ d2 + 6 <= n
      THEN <<[season  |-> SubSeq(line, j + 1, d1),
              episode |-> SubSeq(line, d1 + 2, d2),
              url     |-> SubSeq(line, d2 + 6, n)]>>
      ELSE IF ok /\ d2 + 2 <= n /\ line[d2 + 1] = "|"
      THEN <<[season  |-> SubSeq(line, j + 1, d1),
              episode |-> SubSeq(line, d1 + 2, d2),
              url     |-> SubSeq(line, d2 + 2, n)]>>
      ELSE << >>

\* line.match(/^(.*?)\s+(\d+)x(\d+)(?:\.mp4)?\|(.+)$/): << >> (null) or <<groups>>
episodeMatch(line) ==
  LET ks == {k \in 0..Len(line) : EpisodeAt(line, k) # << >>}
  IN  IF ks = {} THEN << >> ELSE EpisodeAt(line, SetMin(ks))

\* the chain without .replace(/-+/g, '-')
slug_singleDash(animeName) ==
  LET lower == toLowerCase(animeName)
      r1 == [k \in 1..Len(lower) |->
               IF IsLowerAlnum(lower[k]) THEN lower[k] ELSE "-"]
      a == IF Len(r1) >= 1 /\ r1[1] = "-" THEN 2 ELSE 1
      b == IF Len(r1) >= a /\ r1[Len(r1)] = "-" THEN Len(r1) - 1 ELSE Len(r1)
  IN  SubSeq(r1, a, b)

\* animeName.toLowerCase().replace(/[^a-z0-9]/g, '-')
\*   .replace(/-+/g, '-').replace(/^-|-$/g, '')
slug(animeName) ==
  LET lower == toLowerCase(animeName)
      r1 == [k \in 1..Len(lower) |->
               IF IsLowerAlnum(lower[k]) THEN lower[k] ELSE "-"]
      keep == {k \in 1..Len(r1) : r1[k] # "-" \/ k = 1 \/ r1[k - 1] # "-"}
      r2 == [p \in 1..Cardinality(keep) |->
               r1[CHOOSE k \in keep : Cardinality({m \in keep : m <= k}) = p]]
      a == IF Len(r2) >= 1 /\ r2[1] = "-" THEN 2 ELSE 1
      b == IF Len(r2) >= a /\ r2[Len(r2)] = "-" THEN Len(r2) - 1 ELSE Len(r2)
  IN  SubSeq(r2, a, b)

-----------------------------------------------------------------------------
(* processAnimeData: the loop body and the finalization *)

\* the record built from a matched title line
NewAnime(tm, airing) ==
  LET animeName == trim(tm.name)
  IN  [id       |-> slug(animeName),
       name     |-> animeName,
       year     |-> parseInt(tm.year),
       day      |-> IF airing /\ tm.day # << >> THEN <<trim(tm.day[1])>> ELSE << >>,
       isAiring |-> airing,
       seasons  |-> << >>]

\* the file name without .padStart(2, '0')
NewEpisode_unpadded(seasonNum, episodeNum, url) ==
  [episodeNumber |-> episodeNum,
   name          |-> <<"E","p","i","s","o","d","i","o"," ">> \o toString(episodeNum),
   videoUrl      |-> url,
   fileName      |-> toString(seasonNum) \o <<"x">> \o toString(episodeNum)
                       \o <<".","m","p","4">>]

\* the record pushed for a matched episode line
NewEpisode(seasonNum, episodeNum, url) ==
  [episodeNumber |-> episodeNum,
   name          |-> <<"E","p","i","s","o","d","i","o"," ">> \o toString(episodeNum),
   videoUrl      |-> url,
   fileName      |-> toString(seasonNum) \o <<"x">>
                       \o padStart(toString(episodeNum), 2, "0")
                       \o <<".","m","p","4">>]

\* the url kept as the pattern captured it
AddEpisode_rawUrl(seasons, em) ==
  LET seasonNum  == parseInt(em.season)
      episodeNum == parseInt(em.episode)
      url        == em.url
      key        == toString(seasonNum)
      withSeason == IF ~ObjHas(seasons, key)
                    THEN ObjSet(seasons, key,
                                [seasonNumber |-> seasonNum, episodes |-> << >>])
                    ELSE seasons
      season     == ObjGet(withSeason, key)
  IN  ObjSet(withSeason, key,
             [season EXCEPT !.episodes =
                Append(@, NewEpisode(seasonNum, episodeNum, url))])

\* currentAnime.seasons after the episode of a matched episode line is added
AddEpisode(seasons, em) ==
  LET seasonNum  == parseInt(em.season)
      episodeNum == parseInt(em.episode)
      url        == trim(em.url)
      key        == toString(seasonNum)
      withSeason == IF ~ObjHas(seasons, key)
                    THEN ObjSet(seasons, key,
                                [seasonNumber |-> seasonNum, episodes |-> << >>])
                    ELSE seasons
      season     == ObjGet(withSeason, key)
  IN  ObjSet(withSeason, key,
             [season EXCEPT !.episodes =
                Append(@, NewEpisode(seasonNum, episodeNum, url))])

\* a title line whose id is already keyed keeps the record keyed before it
ProcessLine_merge(st, rawLine, airing) ==
  LET line == trim(rawLine)
      tm   == titleMatch(line, airing)
      em   == episodeMatch(line)
  IN  IF line = << >> THEN st
      ELSE IF tm # << >>
      THEN LET anime == NewAnime(tm[1], airing)
           IN  [animeMap     |-> IF ObjHas(st.animeMap, anime.id)
                                 THEN st.animeMap
                                 ELSE ObjSet(st.animeMap, anime.id, anime),
                currentAnime |-> <<anime.id>>]
      ELSE IF st.currentAnime # << >> /\ includes(line, "|")
      THEN IF em # << >>
           THEN LET cur == ObjGet(st.animeMap, st.currentAnime[1])
                IN  [st EXCEPT !.animeMap =
                       ObjSet(@, cur.id,
                              [cur EXCEPT !.seasons = AddEpisode(@, em[1])])]
           ELSE st
      ELSE st

\* an episode line read without a current anime starts a nameless record
ProcessLine_orphan(st, rawLine, airing) ==
  LET line == trim(rawLine)
      tm   == titleMatch(line, airing)
      em   == episodeMatch(line)
  IN  IF line = << >> THEN st
      ELSE IF tm # << >>
      THEN LET anime == NewAnime(tm[1], airing)
           IN  [animeMap     |-> ObjSet(st.animeMap, anime.id, anime),
                currentAnime |-> <<anime.id>>]
      ELSE IF includes(line, "|")
      THEN IF em # << >>
           THEN LET cur == IF st.currentAnime # << >>
                           THEN ObjGet(st.animeMap, st.currentAnime[1])
                           ELSE [id |-> << >>, name |-> << >>, year |-> 0,
                                 day |-> << >>, isAiring |-> airing,
                                 seasons |-> << >>]
                IN  [animeMap     |-> ObjSet(st.animeMap, cur.id,
                                       [cur EXCEPT !.seasons = AddEpisode(@, em[1])]),
                     currentAnime |-> <<cur.id>>]
           ELSE st
      ELSE st

\* a line that is neither a title nor an episode ends the current anime
ProcessLine_reset(st, rawLine, airing) ==
  LET line == trim(rawLine)
      tm   == titleMatch(line, airing)
      em   == episodeMatch(line)
  IN  IF line = << >> THEN st
      ELSE IF tm # << >>
      THEN LET anime == NewAnime(tm[1], airing)
           IN  [animeMap     |-> ObjSet(st.animeMap, anime.id, anime),
                currentAnime |-> <<anime.id>>]
      ELSE IF st.currentAnime # << >> /\ includes(line, "|") /\ em # << >>
      THEN LET cur == ObjGet(st.animeMap, st.currentAnime[1])
           IN  [st EXCEPT !.animeMap =
                  ObjSet(@, cur.id,
                         [cur EXCEPT !.seasons = AddEpisode(@, em[1])])]
      ELSE [st EXCEPT !.currentAnime = << >>]

\* the episode pattern tried before the title pattern while an anime is
\* current
ProcessLine_episodeFirst(st, rawLine, airing) ==
  LET line == trim(rawLine)
      tm   == titleMatch(line, airing)
      em   == episodeMatch(line)
  IN  IF line = << >> THEN st
      ELSE IF st.currentAnime # << >> /\ includes(line, "|") /\ em # << >>
      THEN LET cur == ObjGet(st.animeMap, st.currentAnime[1])
           IN  [st EXCEPT !.animeMap =
                  ObjSet(@, cur.id,
                         [cur EXCEPT !.seasons = AddEpisode(@, em[1])])]
      ELSE IF tm # << >>
      THEN LET anime == NewAnime(tm[1], airing)
           IN  [animeMap     |-> ObjSet(st.animeMap, anime.id, anime),
                currentAnime |-> <<anime.id>>]
      ELSE st

\* one iteration of the for loop on the parser state st = [animeMap, currentAnime]
ProcessLine(st, rawLine, airing) ==
  LET line == trim(rawLine)
      tm   == titleMatch(line, airing)
      em   == episodeMatch(line)
  IN  IF line = << >> THEN st
      ELSE IF tm # << >>
      THEN LET anime == NewAnime(tm[1], airing)
           IN  [animeMap     |-> ObjSet(st.animeMap, anime.id, anime),
                currentAnime |-> <<anime.id>>]
      ELSE IF st.currentAnime # << >> /\ includes(line, "|")
      THEN IF em # << >>
           THEN LET cur == ObjGet(st.animeMap, st.currentAnime[1])
                IN  [st EXCEPT !.animeMap =
                       ObjSet(@, cur.id,
                              [cur EXCEPT !.seasons = AddEpisode(@, em[1])])]
           ELSE st
      ELSE st

\* the comparator written the wrong way round: b.seasonNumber - a.seasonNumber
sortSeasons_descending(seasonsArray) == SortBy(seasonsArray,
         [k \in 1..Len(seasonsArray) |-> 0 - seasonsArray[k].seasonNumber])

\* seasonsArray.sort((a, b) => a.seasonNumber - b.seasonNumber)
sortSeasons(seasonsArray) ==
  SortBy(seasonsArray,
         [k \in 1..Len(seasonsArray) |-> seasonsArray[k].seasonNumber])

\* season.episodes.sort((a, b) => a.episodeNumber - b.episodeNumber)
sortEpisodes(episodes) ==
  SortBy(episodes, [k \in 1..Len(episodes) |-> episodes[k].episodeNumber])

\* Object.values(animeMap) with every anime's seasons converted and sorted
Finalize(map) ==
  LET animeArray == ObjValues(map)
      conv(anime) ==
        LET seasonsArray == sortSeasons(ObjValues(anime.seasons))
        IN  [anime EXCEPT !.seasons =
               [k \in 1..Len(seasonsArray) |->
                  [seasonsArray[k] EXCEPT !.episodes = sortEpisodes(@)]]]
  IN  [k \in 1..Len(animeArray) |-> conv(animeArray[k])]

RECURSIVE ParseLoop(_, _, _, _)
ParseLoop(st, lines, airing, k) ==
  IF k > Len(lines) THEN st
  ELSE ParseLoop(ProcessLine(st, lines[k], airing), lines, airing, k + 1)

\* the function as a whole
processAnimeData(lines, airing) ==
  Finalize(ParseLoop([animeMap |-> << >>, currentAnime |-> << >>],
                     lines, airing, 1).animeMap)

-----------------------------------------------------------------------------
(* Input lines of the catalog text *)

\* "Naruto 2012 (Lunes)"
LTitleDay == <<"N","a","r","u","t","o"," ","2","0","1","2"," ","(","L","u","n","e","s",")">>

\* "One Piece 1999"
LTitle == <<"O","n","e"," ","P","i","e","c","e"," ","1","9","9","9">>

\* "1x01|http://cdn/x.mp4"
LEpNoPrefix == <<"1","x","0","1","|","h","t","t","p",":","/","/","c","d","n","/","x",".","m","p","4">>

\* "Naruto 1x01|http://cdn/x.mp4"
LEp101 == <<"N","a","r","u","t","o"," ","1","x","0","1","|","h","t","t","p",":","/","/","c","d","n","/","x",".","m","p","4">>

\* "Naruto 1x02.mp4|y"
LEp102 == <<"N","a","r","u","t","o"," ","1","x","0","2",".","m","p","4","|","y">>

\* "Naruto 10x01|u"
LEp1001 == <<"N","a","r","u","t","o"," ","1","0","x","0","1","|","u">>

\* "Naruto 2x03|v"
LEp203 == <<"N","a","r","u","t","o"," ","2","x","0","3","|","v">>

\* "# nota"
LJunk == <<"#"," ","n","o","t","a">>

\* ""
LBlank == << >>

LinePool == {LTitleDay, LTitle, LEpNoPrefix, LEp101, LEp102, LEp1001, LEp203,
             LJunk, LBlank}

Texts == UNION {[1..n -> LinePool] : n \in 1..MaxLines}

\* "Bleach 2004 ( L )"
LTitleDaySp == <<"B","l","e","a","c","h"," ","2","0","0","4"," ","("," ","L"," ",")">>

\* "naruto! 2002"
LTitleLower == <<"n","a","r","u","t","o","!"," ","2","0","0","2">>

\* "A 1x01|u 2020"
LBoth == <<"A"," ","1","x","0","1","|","u"," ","2","0","2","0">>

\* "Naruto 1x03| w"
LEpSpace == <<"N","a","r","u","t","o"," ","1","x","0","3","|"," ","w">>

\* "A|B 1x04|u"
LEpTwoPipes == <<"A","|","B"," ","1","x","0","4","|","u">>

\* "Naruto 01x007|a"
LEpPadded == <<"N","a","r","u","t","o"," ","0","1","x","0","0","7","|","a">>

\* "Naruto 1x100|b"
LEp100 == <<"N","a","r","u","t","o"," ","1","x","1","0","0","|","b">>

\* "a|b"
LPipeJunk == <<"a","|","b">>

\* the lines that exercise the edges of the two patterns
GrammarPool == {LTitleDay, LTitleDaySp, LTitleLower, LBoth, LEpNoPrefix,
                LEp101, LEpSpace, LEpTwoPipes, LEpPadded, LEp100, LPipeJunk,
                LJunk, LBlank}

GrammarTexts == UNION {[1..n -> GrammarPool] : n \in 1..MaxLines}

\* the lines of a catalog in which titles repeat
CollisionPool == {LTitleDay, LTitleLower, LTitle, LEp101, LEpSpace}

CollisionTexts == UNION {[1..n -> CollisionPool] : n \in 1..(MaxLines + 1)}

-----------------------------------------------------------------------------
(* The server at rest, for the runs of the parser alone *)

NoSecret == [key |-> "", length |-> 0]

NoRequest == [op |-> "none"]

-----------------------------------------------------------------------------
(* A run of processAnimeData(data, isAiring) *)

ParseInit ==
  /\ data \in Texts
  /\ isAiring \in BOOLEAN
  /\ i = 1
  /\ animeMap = << >>
  /\ currentAnime = << >>
  /\ result = << >>
  /\ pc = "parse"
  /\ variant = "server.js"
  /\ JWT_SECRET = NoSecret
  /\ TOKEN_EXPIRES = << >>
  /\ now = 0
  /\ store = {}
  /\ issued = {}
  /\ last = NoRequest
  /\ okLog = {}
  /\ rejLog = {}
  /\ runs = << >>

\* the body of the for loop for lines[i]
ParseLine ==
  /\ pc = "parse"
  /\ i <= Len(data)
  /\ LET st == ProcessLine([animeMap |-> animeMap, currentAnime |-> currentAnime],
                           data[i], isAiring)
     IN  /\ animeMap' = st.animeMap
         /\ currentAnime' = st.currentAnime
  /\ i' = i + 1
  /\ UNCHANGED <<data, isAiring, result, pc>>
  /\ UNCHANGED serverVars
  /\ UNCHANGED runs

\* the code after the loop: convert, sort and return
ParseReturn ==
  /\ pc = "parse"
  /\ i > Len(data)
  /\ result' = Finalize(animeMap)
  /\ pc' = "done"
  /\ UNCHANGED <<data, isAiring, i, animeMap, currentAnime>>
  /\ UNCHANGED serverVars
  /\ UNCHANGED runs

ParseNext == ParseLine \/ ParseReturn

ParseSpec == ParseInit /\ [][ParseNext]_vars

\* the same run on the texts of GrammarTexts
GrammarInit ==
  /\ data \in GrammarTexts
  /\ isAiring \in BOOLEAN
  /\ i = 1
  /\ animeMap = << >>
  /\ currentAnime = << >>
  /\ result = << >>
  /\ pc = "parse"
  /\ variant = "server.js"
  /\ JWT_SECRET = NoSecret
  /\ TOKEN_EXPIRES = << >>
  /\ now = 0
  /\ store = {}
  /\ issued = {}
  /\ last = NoRequest
  /\ okLog = {}
  /\ rejLog = {}
  /\ runs = << >>

GrammarSpec == GrammarInit /\ [][ParseNext]_vars

\* the same run on the texts of CollisionTexts
CollisionInit ==
  /\ data \in CollisionTexts
  /\ isAiring \in BOOLEAN
  /\ i = 1
  /\ animeMap = << >>
  /\ currentAnime = << >>
  /\ result = << >>
  /\ pc = "parse"
  /\ variant = "server.js"
  /\ JWT_SECRET = NoSecret
  /\ TOKEN_EXPIRES = << >>
  /\ now = 0
  /\ store = {}
  /\ issued = {}
  /\ last = NoRequest
  /\ okLog = {}
  /\ rejLog = {}
  /\ runs = << >>

CollisionSpec == CollisionInit /\ [][ParseNext]_vars

\* the characters of the title names: a capital, a small letter, a digit,
\* the hyphen, the space and a punctuation mark
NameAlphabet == {"A", "b", "1", "-", " ", "!"}

Names == UNION {[1..n -> NameAlphabet] : n \in 1..MaxName}

\* the one-line texts "<name> 2001"
SlugTexts == {<<n \o <<" ","2","0","0","1">>>> : n \in Names}

\* the same run on the texts of SlugTexts
SlugInit ==
  /\ data \in SlugTexts
  /\ isAiring \in BOOLEAN
  /\ i = 1
  /\ animeMap = << >>
  /\ currentAnime = << >>
  /\ result = << >>
  /\ pc = "parse"
  /\ variant = "server.js"
  /\ JWT_SECRET = NoSecret
  /\ TOKEN_EXPIRES = << >>
  /\ now = 0
  /\ store = {}
  /\ issued = {}
  /\ last = NoRequest
  /\ okLog = {}
  /\ rejLog = {}
  /\ runs = << >>

SlugSpec == SlugInit /\ [][ParseNext]_vars

\* "86 2021"
LTitle86 == <<"8","6"," ","2","0","2","1">>

\* "Naruto 0x00|u"
LEpZero == <<"N","a","r","u","t","o"," ","0","x","0","0","|","u">>

\* the lines that exercise the order of the branches, the order of the
\* output and the numbers of the episode lines
ClassifyPool == {LTitleLower, LTitle86, LTitle, LBoth, LEp101, LEpZero,
                 LPipeJunk, LJunk}

ClassifyTexts == UNION {[1..n -> ClassifyPool] : n \in 1..MaxLines}

\* the same run on the texts of ClassifyTexts
ClassifyInit ==
  /\ data \in ClassifyTexts
  /\ isAiring \in BOOLEAN
  /\ i = 1
  /\ animeMap = << >>
  /\ currentAnime = << >>
  /\ result = << >>
  /\ pc = "parse"
  /\ variant = "server.js"
  /\ JWT_SECRET = NoSecret
  /\ TOKEN_EXPIRES = << >>
  /\ now = 0
  /\ store = {}
  /\ issued = {}
  /\ last = NoRequest
  /\ okLog = {}
  /\ rejLog = {}
  /\ runs = << >>

ClassifySpec == ClassifyInit /\ [][ParseNext]_vars

-----------------------------------------------------------------------------
(* migrateData: the store after a sequential ingestion run *)

\* findOne({id}) followed by updateOne({id}, anime) or create(anime); the
\* schema requires a non-empty id on create
upsertAnime(coll, anime) ==
  IF \E d \in coll : d.id = anime.id
  THEN [ok |-> TRUE, coll |-> {d \in coll : d.id # anime.id} \cup {anime}]
  ELSE IF anime.id = << >>
  THEN [ok |-> FALSE, coll |-> coll]
  ELSE [ok |-> TRUE, coll |-> coll \cup {anime}]

RECURSIVE SaveAll(_, _, _)
SaveAll(coll, animes, k) ==
  IF k > Len(animes) THEN coll
  ELSE LET r == upsertAnime(coll, animes[k])
       IN  IF r.ok THEN SaveAll(r.coll, animes, k + 1) ELSE r.coll

\* the airing catalog is written first, then the finished one; a failed
\* write ends the run
migrateData(coll, airingAnimeData, finishedAnimeData) ==
  SaveAll(coll, processAnimeData(airingAnimeData, TRUE)
                  \o processAnimeData(finishedAnimeData, FALSE), 1)

\* "One Piece 1x01|z"
LEpOnePiece == <<"O","n","e"," ","P","i","e","c","e"," ","1","x","0","1","|","z">>

\* "A 2001"
LTitleA == <<"A"," ","2","0","0","1">>

\* "A 1x02|p"
LEpA == <<"A"," ","1","x","0","2","|","p">>

\* "A 1 2002"
LTitleA1 == <<"A"," ","1"," ","2","0","0","2">>

\* "A 1 2x03|q"
LEpA1 == <<"A"," ","1"," ","2","x","0","3","|","q">>

\* the contents of data.js: pairs of an airing and a finished text
CatalogPool ==
  { [airing   |-> <<LTitleDay, LEp102, LEp101>>,
     finished |-> <<LTitle, LEpOnePiece>>],
    [airing   |-> << >>,
     finished |-> <<LTitleA, LEpA, LTitleA1, LEpA1>>] }

Stores == {migrateData({}, c.airing, c.finished) : c \in CatalogPool}

-----------------------------------------------------------------------------
(* Episode references *)

\* '<animeId>-<seasonNumber>-<episodeNumber>', as the client builds it
Encode(animeId, seasonNumber, episodeNumber) ==
  animeId \o <<"-">> \o toString(seasonNumber) \o <<"-">> \o toString(episodeNumber)

\* the (anime, season index, episode index) triples of a collection
EpisodesOf(coll) ==
  UNION {UNION {{<<a, s, e>> : e \in 1..Len(a.seasons[s].episodes)} :
                  s \in 1..Len(a.seasons)} : a \in coll}

RefOf(x) ==
  Encode(x[1].id, x[1].seasons[x[2]].seasonNumber,
         x[1].seasons[x[2]].episodes[x[3]].episodeNumber)

\* "naruto-1-9"
RefMissing == <<"n","a","r","u","t","o","-","1","-","9">>

\* "naruto"
RefMalformed == <<"n","a","r","u","t","o">>

\* the episodeId values of the requests: every stored episode, an absent
\* episode, a value without season and episode, and the empty string
RefPool ==
  {RefOf(x) : x \in EpisodesOf(store)} \cup {RefMissing, RefMalformed, << >>}

-----------------------------------------------------------------------------
(* Configuration *)

\* a secret of 8 characters
ShortSecret == [key |-> "k8", length |-> 8]

\* a secret of 32 characters
StrongSecret == [key |-> "k32", length |-> 32]

\* values of TOKEN_EXPIRES: unset, "0", "1", "2"
TokenExpiresPool == {<< >>, <<"0">>, <<"1">>, <<"2">>}

\* parseInt(process.env.TOKEN_EXPIRES || '300')
expiresInSeconds ==
  parseInt(IF TOKEN_EXPIRES # << >> THEN TOKEN_EXPIRES ELSE <<"3","0","0">>)

-----------------------------------------------------------------------------
(* jsonwebtoken *)

\* HMAC of the payload under the key
Sign(key, payload) == [key |-> key, payload |-> payload]

\* jwt.sign(payload, secret, {expiresIn}); payload.exp and expiresIn are
\* << >> when absent.  A payload that already has exp is refused when
\* expiresIn is given as well.
jwtSign(payload, secret, expiresIn) ==
  IF secret.length = 0 THEN << >>
  ELSE IF payload.exp # << >> /\ expiresIn # << >> THEN << >>
  ELSE LET exp == IF expiresIn # << >> THEN payload.iat + expiresIn[1]
                  ELSE payload.exp[1]
           claims == [episodeId |-> payload.episodeId,
                      iat |-> payload.iat, exp |-> exp]
       IN  <<[payload |-> claims, sig |-> Sign(secret.key, claims)]>>

\* a verification that lets a token through at the very second it expires
jwtVerify_lateExpiry(part, secret, t) ==
  IF part.jwt = << >> THEN << >>
  ELSE IF secret.length = 0 THEN << >>
  ELSE IF part.jwt[1].sig # Sign(secret.key, part.jwt[1].payload) THEN << >>
  ELSE IF t > part.jwt[1].payload.exp THEN << >>
  ELSE <<part.jwt[1].payload>>

\* a verification that refuses a token it has let through before
jwtVerify_singleUse(part, secret, t) ==
  IF part.jwt = << >> THEN << >>
  ELSE IF secret.length = 0 THEN << >>
  ELSE IF part.jwt[1].sig # Sign(secret.key, part.jwt[1].payload) THEN << >>
  ELSE IF t >= part.jwt[1].payload.exp THEN << >>
  ELSE IF \E o \in okLog : o.token = part.jwt[1] THEN << >>
  ELSE <<part.jwt[1].payload>>

\* jwt.verify(token, secret) at clock t: << >> when it throws, <<payload>>
\* otherwise
jwtVerify(part, secret, t) ==
  IF part.jwt = << >> THEN << >>
  ELSE IF secret.length = 0 THEN << >>
  ELSE IF part.jwt[1].sig # Sign(secret.key, part.jwt[1].payload) THEN << >>
  ELSE IF t >= part.jwt[1].payload.exp THEN << >>
  ELSE <<part.jwt[1].payload>>

\* generateStreamToken of src/backend/server.js: << >> when it throws
generateStreamToken_server(episodeId) ==
  jwtSign([episodeId |-> episodeId, iat |-> now,
           exp |-> <<now + expiresInSeconds>>],
          JWT_SECRET, <<expiresInSeconds>>)

\* generateStreamToken of the build with the configuration checks
generateStreamToken_checked(episodeId) ==
  IF JWT_SECRET.length = 0 \/ JWT_SECRET.length < 32 THEN << >>
  ELSE IF episodeId = << >> THEN << >>
  ELSE jwtSign([episodeId |-> episodeId, iat |-> now, exp |-> << >>],
               JWT_SECRET, <<expiresInSeconds>>)

generateStreamToken(episodeId) ==
  IF variant = "server.js" THEN generateStreamToken_server(episodeId)
  ELSE generateStreamToken_checked(episodeId)

-----------------------------------------------------------------------------
(* POST /api/stream/token *)

TokenOk(tok) ==
  [status |-> 200,
   body |-> [success |-> TRUE, token |-> tok,
             expiresInSeconds |-> expiresInSeconds]]

Failure(code, msg) == [status |-> code, body |-> [success |-> FALSE, error |-> msg]]

\* the handler of src/backend/server.js
postStreamToken_server(episodeId) ==
  IF episodeId = << >> THEN Failure(400, "ID de episodio requerido")
  ELSE LET tok == generateStreamToken(episodeId)
       IN  IF tok # << >> THEN TokenOk(tok[1])
           ELSE Failure(500, "Error al generar token")

\* the handler of the build with the configuration checks
postStreamToken_checked(episodeId) ==
  IF episodeId = << >> THEN Failure(400, "ID de episodio requerido")
  ELSE IF JWT_SECRET.length = 0
  THEN Failure(500, "Error de configuracion del servidor")
  ELSE IF JWT_SECRET.length < 32
  THEN Failure(500, "Error de configuracion del servidor")
  ELSE LET tok == generateStreamToken(episodeId)
       IN  IF tok # << >> THEN TokenOk(tok[1])
           ELSE Failure(500, "Error al generar token")

postStreamToken(episodeId) ==
  IF variant = "server.js" THEN postStreamToken_server(episodeId)
  ELSE postStreamToken_checked(episodeId)

-----------------------------------------------------------------------------
(* GET /api/stream/:episodeId *)

\* the parts of an Authorization header between its spaces: a word, or a
\* token string
Word(w) == [w |-> w, jwt |-> << >>]

JwtPart(t) == [w |-> "jwt", jwt |-> <<t>>]

NoParts == [animeId |-> << >>, seasonNum |-> << >>, episodeNum |-> << >>]

\* const [animeId, seasonNum, episodeNum] = decoded.episodeId.split('-')
decodeReference(episodeId) ==
  LET segs == split(episodeId, "-")
  IN  [animeId    |-> <<segs[1]>>,
       seasonNum  |-> IF Len(segs) >= 2 THEN <<segs[2]>> ELSE << >>,
       episodeNum |-> IF Len(segs) >= 3 THEN <<segs[3]>> ELSE << >>]

\* Array.prototype.find: << >> or <<the first element whose index is in hits>>
find(arr, hits) == IF hits = {} THEN << >> ELSE <<arr[SetMin(hits)]>>

\* a lookup that falls back on the first episode of the season
resolveEpisode_firstEpisode(episodeId) ==
  LET parts   == decodeReference(episodeId)
      found   == {d \in store : <<d.id>> = parts.animeId}
      anime   == CHOOSE d \in found : TRUE
      season  == find(anime.seasons,
                      {k \in 1..Len(anime.seasons) :
                         <<toString(anime.seasons[k].seasonNumber)>>
                           = parts.seasonNum})
      episode == IF season = << >> THEN << >>
                 ELSE <<season[1].episodes[1]>>
  IN  IF found = {}
      THEN Failure(404, "Anime no encontrado") @@ [parts |-> parts]
      ELSE IF episode = << >>
      THEN Failure(404, "Episodio no encontrado") @@ [parts |-> parts]
      ELSE [status |-> 200,
            body |-> [success |-> TRUE,
                      videoUrl |-> episode[1].videoUrl,
                      animeName |-> anime.name,
                      episodeNumber |-> episode[1].episodeNumber],
            parts |-> parts]

\* the lookup that follows a verified token
resolveEpisode(episodeId) ==
  LET parts   == decodeReference(episodeId)
      found   == {d \in store : <<d.id>> = parts.animeId}
      anime   == CHOOSE d \in found : TRUE
      season  == find(anime.seasons,
                      {k \in 1..Len(anime.seasons) :
                         <<toString(anime.seasons[k].seasonNumber)>>
                           = parts.seasonNum})
      episode == IF season = << >> THEN << >>
                 ELSE find(season[1].episodes,
                           {k \in 1..Len(season[1].episodes) :
                              <<toString(season[1].episodes[k].episodeNumber)>>
                                = parts.episodeNum})
  IN  IF found = {}
      THEN Failure(404, "Anime no encontrado") @@ [parts |-> parts]
      ELSE IF episode = << >>
      THEN Failure(404, "Episodio no encontrado") @@ [parts |-> parts]
      ELSE [status |-> 200,
            body |-> [success |-> TRUE,
                      videoUrl |-> episode[1].videoUrl,
                      animeName |-> anime.name,
                      episodeNumber |-> episode[1].episodeNumber],
            parts |-> parts]

\* a handler that reads the token's payload without verifying it
getStream_unverified(episodeId, header) ==
  LET token == IF Len(header) >= 2 THEN <<header[2]>> ELSE << >>
  IN  IF token = << >> \/ token[1].w = ""
      THEN Failure(401, "Token requerido")
             @@ [verified |-> FALSE, lookups |-> 0, parts |-> NoParts]
      ELSE IF token[1].jwt = << >>
      THEN Failure(500, "Error al procesar streaming")
             @@ [verified |-> FALSE, lookups |-> 0, parts |-> NoParts]
      ELSE resolveEpisode(token[1].jwt[1].payload.episodeId)
             @@ [verified |-> FALSE, lookups |-> 1]

\* a handler that looks up the episode named in the path
getStream_byPath(episodeId, header) ==
  LET token   == IF Len(header) >= 2 THEN <<header[2]>> ELSE << >>
      decoded == jwtVerify(token[1], JWT_SECRET, now)
  IN  IF token = << >> \/ token[1].w = ""
      THEN Failure(401, "Token requerido")
             @@ [verified |-> FALSE, lookups |-> 0, parts |-> NoParts]
      ELSE IF decoded = << >>
      THEN Failure(403, "Token invalido o expirado")
             @@ [verified |-> FALSE, lookups |-> 0, parts |-> NoParts]
      ELSE resolveEpisode(episodeId)
             @@ [verified |-> TRUE, lookups |-> 1]

\* the handler, for the route parameter episodeId (req.params.episodeId,
\* which the code never reads) and the words of the Authorization header:
\* the response, whether the token passed jwt.verify, the number of store
\* lookups made and the decoded reference
getStream(episodeId, header) ==
  LET token   == IF Len(header) >= 2 THEN <<header[2]>> ELSE << >>
      decoded == jwtVerify(token[1], JWT_SECRET, now)
  IN  IF token = << >> \/ token[1].w = ""
      THEN Failure(401, "Token requerido")
             @@ [verified |-> FALSE, lookups |-> 0, parts |-> NoParts]
      ELSE IF decoded = << >>
      THEN Failure(403, "Token invalido o expirado")
             @@ [verified |-> FALSE, lookups |-> 0, parts |-> NoParts]
      ELSE resolveEpisode(decoded[1].episodeId)
             @@ [verified |-> TRUE, lookups |-> 1]

-----------------------------------------------------------------------------
(* GET /api/animes/:type *)

\* .select('id name year day isAiring seasons.seasonNumber
\*          seasons.episodes.episodeNumber seasons.episodes.name
\*          seasons.episodes.fileName')
select(doc) ==
  [id |-> doc.id, name |-> doc.name, year |-> doc.year, day |-> doc.day,
   isAiring |-> doc.isAiring,
   seasons |-> [s \in 1..Len(doc.seasons) |->
     [seasonNumber |-> doc.seasons[s].seasonNumber,
      episodes |-> [e \in 1..Len(doc.seasons[s].episodes) |->
        [episodeNumber |-> doc.seasons[s].episodes[e].episodeNumber,
         name |-> doc.seasons[s].episodes[e].name,
         fileName |-> doc.seasons[s].episodes[e].fileName]]]]]

RECURSIVE totalEpisodes(_)
totalEpisodes(seasons) ==
  IF seasons = << >> THEN 0
  ELSE Len(seasons[1].episodes) + totalEpisodes(Tail(seasons))

\* animes.map(anime => ({...}))
processedAnime(anime) ==
  [id |-> anime.id, name |-> anime.name, year |-> anime.year, day |-> anime.day,
   isAiring |-> anime.isAiring,
   totalSeasons |-> Len(anime.seasons),
   totalEpisodes |-> totalEpisodes(anime.seasons),
   seasons |-> [s \in 1..Len(anime.seasons) |->
     [seasonNumber |-> anime.seasons[s].seasonNumber,
      episodes |-> [e \in 1..Len(anime.seasons[s].episodes) |->
        [episodeNumber |-> anime.seasons[s].episodes[e].episodeNumber,
         name |-> anime.seasons[s].episodes[e].name,
         fileName |-> anime.seasons[s].episodes[e].fileName]]]]]

\* a handler that answers with the stored documents as they are
getAnimes_raw(type) ==
  [status |-> 200,
   body |-> [success |-> TRUE,
             processed |-> {x \in store : x.isAiring = (type = "airing")}]]

\* the handler; the documents found are kept as a set, their order being
\* the store's
getAnimes(type) ==
  LET animes == {select(d) : d \in {x \in store : x.isAiring = (type = "airing")}}
  IN  [status |-> 200,
       body |-> [success |-> TRUE,
                 processed |-> {processedAnime(a) : a \in animes}]]

-----------------------------------------------------------------------------
(* The server *)

\* tokens an outsider can build: signed with another key, or an issued
\* token whose expiry was rewritten
ForgedTokens ==
  {LET claims == [episodeId |-> r, iat |-> 0, exp |-> MaxTime + 10]
   IN  [payload |-> claims, sig |-> Sign("attacker", claims)] :
     r \in RefPool \ {<< >>}}

TamperedTokens ==
  {[t EXCEPT !.payload.exp = @ + 10] : t \in issued}

\* "naruto-1-1"
RefStored == <<"n","a","r","u","t","o","-","1","-","1">>

\* the values of the route parameter :episodeId
ParamPool == {RefStored, RefMissing}

HeaderPool ==
  {<< >>, <<Word("Bearer")>>, <<Word("Bearer"), Word("")>>,
   <<Word("Bearer"), Word("abc")>>}
    \cup {<<Word("Bearer"), JwtPart(t)>> :
            t \in issued \cup ForgedTokens \cup TamperedTokens}
    \cup {<<JwtPart(t)>> : t \in issued}

Init ==
  /\ variant \in {"server.js", "part_000"}
  /\ JWT_SECRET \in {NoSecret, ShortSecret, StrongSecret}
  /\ TOKEN_EXPIRES \in TokenExpiresPool
  /\ now = 0
  /\ store \in Stores
  /\ issued = {}
  /\ last = NoRequest
  /\ okLog = {}
  /\ rejLog = {}
  /\ runs = << >>
  /\ data = << >>
  /\ isAiring = FALSE
  /\ i = 1
  /\ animeMap = << >>
  /\ currentAnime = << >>
  /\ result = << >>
  /\ pc = "serve"

\* the clock advances by a second
Tick ==
  /\ pc = "serve"
  /\ now < MaxTime
  /\ now' = now + 1
  /\ UNCHANGED <<variant, JWT_SECRET, TOKEN_EXPIRES, store, issued, last, okLog, rejLog>>
  /\ UNCHANGED <<data, isAiring, i, animeMap, currentAnime, result, pc, runs>>

PostStreamToken ==
  /\ pc = "serve"
  /\ \E episodeId \in RefPool :
       LET r == postStreamToken(episodeId)
       IN  /\ issued' = IF r.status = 200 THEN issued \cup {r.body.token} ELSE issued
           /\ Cardinality(issued') <= MaxTokens
           /\ last' = [op |-> "token", req |-> episodeId, time |-> now] @@ r
  /\ UNCHANGED <<variant, JWT_SECRET, TOKEN_EXPIRES, now, store, okLog, rejLog>>
  /\ UNCHANGED <<data, isAiring, i, animeMap, currentAnime, result, pc, runs>>

GetStream ==
  /\ pc = "serve"
  /\ \E header \in HeaderPool, episodeId \in ParamPool :
       LET r == getStream(episodeId, header)
           tok == header[2].jwt[1]
       IN  /\ last' = [op |-> "stream", header |-> header, time |-> now] @@ r
           /\ okLog' = IF r.verified
                          /\ ~\E o \in okLog : /\ o.token = tok
                                                /\ o.status = r.status
                                                /\ o.body = r.body
                       THEN okLog \cup {[token |-> tok, status |-> r.status,
                                         body |-> r.body, time |-> now]}
                       ELSE okLog
           /\ rejLog' = IF r.status = 403 /\ Len(header) >= 2
                           /\ header[2].jwt # << >> /\ tok \in issued
                        THEN rejLog \cup {tok}
                        ELSE rejLog
  /\ UNCHANGED <<variant, JWT_SECRET, TOKEN_EXPIRES, now, store, issued>>
  /\ UNCHANGED <<data, isAiring, i, animeMap, currentAnime, result, pc, runs>>

GetAnimes ==
  /\ pc = "serve"
  /\ \E type \in {"airing", "finished", "todos"} :
       last' = [op |-> "animes", type |-> type, time |-> now] @@ getAnimes(type)
  /\ UNCHANGED <<variant, JWT_SECRET, TOKEN_EXPIRES, now, store, issued, okLog, rejLog>>
  /\ UNCHANGED <<data, isAiring, i, animeMap, currentAnime, result, pc, runs>>

Next == Tick \/ PostStreamToken \/ GetStream \/ GetAnimes

Spec == Init /\ [][Next]_vars

-----------------------------------------------------------------------------
(* Properties of the server *)

\* C1: whatever the store holds and whatever :type is, no episode of any
\* season of any anime in the response of GET /api/animes/:type has a
\* videoUrl field.
ListingHasNoVideoUrl ==
  last.op = "animes" =>
    \A a \in last.body.processed :
      \A s \in 1..Len(a.seasons) :
        \A e \in 1..Len(a.seasons[s].episodes) :
          "videoUrl" \notin DOMAIN a.seasons[s].episodes[e]

\* a listing was answered with an episode whose stored record has a videoUrl
ListingWitness ==
  /\ last.op = "animes"
  /\ \E a \in last.body.processed : \E d \in store :
       /\ d.id = a.id
       /\ Len(a.seasons) >= 1
       /\ Len(a.seasons[1].episodes) >= 1
       /\ d.seasons[1].episodes[1].videoUrl # << >>

\* C2: a response of GET /api/stream/:episodeId carries a videoUrl only if
\* the Authorization header carried a token whose signature is the server's
\* and which has not expired; without a token the answer is 401, with a
\* token that fails verification it is 403, and in both cases no store
\* lookup was made.
StreamGatedByToken ==
  last.op = "stream" =>
    LET h        == last.header
        hasToken == Len(h) >= 2 /\ h[2].w # ""
        genuine  == /\ hasToken
                    /\ h[2].jwt # << >>
                    /\ JWT_SECRET.length > 0
                    /\ h[2].jwt[1].sig = Sign(JWT_SECRET.key, h[2].jwt[1].payload)
                    /\ last.time < h[2].jwt[1].payload.exp
    IN  /\ "videoUrl" \in DOMAIN last.body => genuine
        /\ ~hasToken => last.status = 401 /\ last.lookups = 0
        /\ hasToken /\ ~genuine => last.status = 403 /\ last.lookups = 0

\* a forged token was refused with 403 after a genuine one had obtained a
\* videoUrl
StreamGateWitness ==
  /\ last.op = "stream"
  /\ last.status = 403
  /\ Len(last.header) >= 2
  /\ last.header[2].jwt # << >>
  /\ last.header[2].jwt[1] \in ForgedTokens
  /\ \E o \in okLog : "videoUrl" \in DOMAIN o.body

\* C3: with a secret of at least 32 characters and a positive TTL, for a
\* non-empty reference generateStreamToken succeeds, and verifying the token
\* at once succeeds and yields episodeId equal to the reference.
IssueVerifyRoundTrip ==
  (/\ last.op = "token"
   /\ last.req # << >>
   /\ JWT_SECRET.length >= 32
   /\ expiresInSeconds > 0)
  => /\ last.status = 200
     /\ jwtVerify(JwtPart(last.body.token), JWT_SECRET, last.time) # << >>
     /\ jwtVerify(JwtPart(last.body.token), JWT_SECRET, last.time)[1].episodeId
          = last.req

\* the issued token presented in the last redemption request, if any
PresentedIssued ==
  IF /\ last.op = "stream"
     /\ Len(last.header) = 2
     /\ last.header[2].jwt # << >>
     /\ last.header[2].jwt[1] \in issued
  THEN last.header[2].jwt
  ELSE << >>

\* C4: a token issued at issuedAt with the configured TTL passes
\* verification at every time before issuedAt + TTL, is refused with 403 at
\* every time from issuedAt + TTL on (that instant included), and once
\* refused is never accepted again.
ExpiryAtTTL ==
  /\ PresentedIssued # << >> =>
       LET deadline == PresentedIssued[1].payload.iat + expiresInSeconds
       IN  /\ last.time < deadline => last.verified /\ last.status # 403
           /\ last.time >= deadline => ~last.verified /\ last.status = 403
  /\ \A t \in rejLog : ~(PresentedIssued = <<t>> /\ last.verified)

\* a token accepted earlier is refused exactly at issuedAt + TTL
ExpiryWitness ==
  /\ PresentedIssued # << >>
  /\ last.status = 403
  /\ last.time = PresentedIssued[1].payload.iat + expiresInSeconds
  /\ PresentedIssued[1] \in rejLog
  /\ \E o \in okLog : o.token = PresentedIssued[1] /\ o.time < last.time

\* C5: redemption consumes nothing: whatever was redeemed before, an issued
\* token presented before its expiry passes verification again and gets the
\* response its earlier redemptions got.
RepeatedRedemption ==
  (PresentedIssued # << >> /\ last.time < PresentedIssued[1].payload.exp)
  => /\ last.verified
     /\ \A o \in okLog :
          o.token = PresentedIssued[1]
          => o.status = last.status /\ o.body = last.body

\* a token redeemed with success is redeemed again at a later time
RepeatedRedemptionWitness ==
  /\ PresentedIssued # << >>
  /\ last.status = 200
  /\ \E o \in okLog :
       /\ o.token = PresentedIssued[1]
       /\ o.time < last.time
       /\ o.body = last.body

\* C6: for every stored anime id, season number s and episode number e,
\* decoding id + '-' + s + '-' + e gives back (id, s, e).
ReferenceRoundTrip ==
  \A x \in EpisodesOf(store) :
    (PresentedIssued # << >> /\ last.verified
       /\ PresentedIssued[1].payload.episodeId = RefOf(x))
    => last.parts =
         [animeId    |-> <<x[1].id>>,
          seasonNum  |-> <<toString(x[1].seasons[x[2]].seasonNumber)>>,
          episodeNum |-> <<toString(x[1].seasons[x[2]].episodes[x[3]].episodeNumber)>>]

\* C7: for every episode in the store after ingestion, a token issued for
\* '<anime.id>-<seasonNumber>-<episodeNumber>' and redeemed before expiry is
\* answered with success, that episode's videoUrl, the anime's name and the
\* episode's number.
EndToEndResolution ==
  \A x \in EpisodesOf(store) :
    (/\ PresentedIssued # << >>
     /\ PresentedIssued[1].payload.episodeId = RefOf(x)
     /\ last.time < PresentedIssued[1].payload.exp)
    => /\ last.status = 200
       /\ last.body =
            [success |-> TRUE,
             videoUrl |-> x[1].seasons[x[2]].episodes[x[3]].videoUrl,
             animeName |-> x[1].name,
             episodeNumber |-> x[1].seasons[x[2]].episodes[x[3]].episodeNumber]

-----------------------------------------------------------------------------
(* Properties of the parser *)

\* C8: in every anime returned by processAnimeData the seasonNumber values
\* are strictly increasing along the seasons list (hence pairwise
\* distinct), whatever the order of the lines.
SeasonsStrictlyIncreasing ==
  pc = "done" =>
    \A a \in 1..Len(result) :
      \A s \in 1..(Len(result[a].seasons) - 1) :
        result[a].seasons[s].seasonNumber < result[a].seasons[s + 1].seasonNumber

\* the season 10 line came before the season 2 line of the same anime, and
\* both seasons are in the output
SeasonsWitness ==
  /\ pc = "done"
  /\ \E j, k \in 1..Len(data) : j < k /\ data[j] = LEp1001 /\ data[k] = LEp203
  /\ \E a \in 1..Len(result) :
       /\ Len(result[a].seasons) = 2
       /\ result[a].seasons[1].seasonNumber = 2
       /\ result[a].seasons[2].seasonNumber = 10

\* C9: in every season returned by processAnimeData the episodeNumber
\* values are strictly increasing along the episodes list (hence pairwise
\* distinct), also when a <season>x<episode> occurs on several lines.
EpisodesStrictlyIncreasing ==
  pc = "done" =>
    \A a \in 1..Len(result) :
      \A s \in 1..Len(result[a].seasons) :
        \A e \in 1..(Len(result[a].seasons[s].episodes) - 1) :
          result[a].seasons[s].episodes[e].episodeNumber
            < result[a].seasons[s].episodes[e + 1].episodeNumber

\* C10: the line "1x01|http://cdn/x.mp4", read while an anime is current,
\* gives that anime a season 1 holding the episode {1, "Episodio 1",
\* "http://cdn/x.mp4", "1x01.mp4"}.
BareEpisodeLineAccepted ==
  (/\ pc = "parse"
   /\ i > 1
   /\ data[i - 1] = LEpNoPrefix
   /\ currentAnime # << >>)
  => LET seasons == ObjGet(animeMap, currentAnime[1]).seasons
     IN  /\ ObjHas(seasons, <<"1">>)
         /\ \E e \in 1..Len(ObjGet(seasons, <<"1">>).episodes) :
              ObjGet(seasons, <<"1">>).episodes[e] =
                [episodeNumber |-> 1,
                 name     |-> <<"E","p","i","s","o","d","i","o"," ","1">>,
                 videoUrl |-> <<"h","t","t","p",":","/","/","c","d","n","/","x",".","m","p","4">>,
                 fileName |-> <<"1","x","0","1",".","m","p","4">>]

-----------------------------------------------------------------------------
(* The title line *)

\* the loop body has just made rec the current anime, keyed by its id
StartsRecord(rec) ==
  /\ currentAnime' = <<rec.id>>
  /\ ObjHas(animeMap', rec.id)
  /\ ObjGet(animeMap', rec.id) = rec

\* the record a title line starts
TitleRecord(animeName, year, day) ==
  [id |-> slug(animeName), name |-> animeName, year |-> year, day |-> day,
   isAiring |-> isAiring, seasons |-> << >>]

\* what the loop body does on the title lines whose day group is absent or
\* holds no white space
TitleLineCases ==
  /\ data[i] = LTitleLower =>
       StartsRecord(TitleRecord(<<"n","a","r","u","t","o","!">>, 2002, << >>))
  /\ (data[i] = LTitleDay /\ isAiring) =>
       StartsRecord(TitleRecord(<<"N","a","r","u","t","o">>, 2012,
                                <<<<"L","u","n","e","s">>>>))
  /\ (data[i] \in {LTitleDay, LTitleDaySp} /\ ~isAiring) =>
       /\ animeMap' = animeMap
       /\ currentAnime' = currentAnime

\* C11 as stated: a title line starts the record {slug(name), name, year,
\* day, section flag, no seasons}; in the airing section the day is the text
\* between the parentheses, or null without a day group; in the finished
\* section a line ending in a day group is not a title.
TitleLineDayVerbatim ==
  [][(pc = "parse" /\ i <= Len(data)) =>
       /\ TitleLineCases
       /\ (data[i] = LTitleDaySp /\ isAiring) =>
            StartsRecord(TitleRecord(<<"B","l","e","a","c","h">>, 2004,
                                     <<<<" ","L"," ">>>>))]_vars

\* C11 amended: as above, with the day being the text between the
\* parentheses without its leading and trailing white space.
TitleLineDayTrimmed ==
  [][(pc = "parse" /\ i <= Len(data)) =>
       /\ TitleLineCases
       /\ (data[i] = LTitleDaySp /\ isAiring) =>
            StartsRecord(TitleRecord(<<"B","l","e","a","c","h">>, 2004,
                                     <<<<"L">>>>))]_vars

\* an airing title line with a padded day group has been read, after a
\* finished-style title line
TitleLineWitness ==
  /\ pc = "parse"
  /\ isAiring
  /\ i = 3
  /\ data[1] = LTitleLower
  /\ data[2] = LTitleDaySp
  /\ currentAnime = <<<<"b","l","e","a","c","h">>>>
  /\ ObjGet(animeMap, <<"b","l","e","a","c","h">>).day = <<<<"L">>>>
  /\ ObjGet(animeMap, <<"n","a","r","u","t","o">>).year = 2002

-----------------------------------------------------------------------------
(* Title collision *)

\* line k of data is a title line of the section being read
IsTitleLine(k) ==
  \/ data[k] \in {LTitleLower, LTitle}
  \/ (isAiring /\ data[k] = LTitleDay)

\* the id of title line k: "one-piece" for LTitle, "naruto" for the other two
TitleIdOf(k) ==
  IF data[k] = LTitle
  THEN <<"o","n","e","-","p","i","e","c","e">>
  ELSE <<"n","a","r","u","t","o">>

\* the year of title line k
TitleYearOf(k) ==
  IF data[k] = LTitle THEN 1999
  ELSE IF data[k] = LTitleLower THEN 2002
  ELSE 2012

\* the last title line that gives id
LastTitle(id) ==
  SetMax({k \in 1..Len(data) : IsTitleLine(k) /\ TitleIdOf(k) = id})

\* the lines after title line t up to the next title line
SegmentOf(t) ==
  {k \in (t + 1)..Len(data) : \A m \in (t + 1)..k : ~IsTitleLine(m)}

\* the positions <<season, episode>> of the episodes of a returned record
\* that carry episodeNumber n
EpisodesNumbered(rec, n) ==
  {p \in (1..Len(rec.seasons)) \X (1..(MaxLines + 1)) :
     /\ p[2] <= Len(rec.seasons[p[1]].episodes)
     /\ rec.seasons[p[1]].episodes[p[2]].episodeNumber = n}

\* C12: the catalog returned holds one record per id of a title line, made
\* by the last title line with that id, and its episodes are those of the
\* episode lines between that title line and the next title line: nothing
\* read under an earlier title line with the same id is in the output.
CollisionKeepsLast ==
  pc = "done" =>
    /\ \A a, b \in 1..Len(result) : result[a].id = result[b].id => a = b
    /\ {result[a].id : a \in 1..Len(result)}
         = {TitleIdOf(k) : k \in {m \in 1..Len(data) : IsTitleLine(m)}}
    /\ \A a \in 1..Len(result) :
         LET t   == LastTitle(result[a].id)
             seg == SegmentOf(t)
         IN  /\ result[a].year = TitleYearOf(t)
             /\ Cardinality(EpisodesNumbered(result[a], 1))
                  = Cardinality({k \in seg : data[k] = LEp101})
             /\ Cardinality(EpisodesNumbered(result[a], 3))
                  = Cardinality({k \in seg : data[k] = LEpSpace})
             /\ \A n \in 0..9 : n \notin {1, 3} =>
                  EpisodesNumbered(result[a], n) = {}

\* two title lines gave the id "naruto", each followed by an episode line,
\* and the one record returned holds the second episode only
CollisionWitness ==
  /\ pc = "done"
  /\ Len(data) = 4
  /\ data[1] = LTitleLower
  /\ data[2] = LEp101
  /\ data[3] \in {LTitleLower, LTitleDay}
  /\ IsTitleLine(3)
  /\ data[4] = LEpSpace
  /\ Len(result) = 1
  /\ Len(result[1].seasons) = 1
  /\ Len(result[1].seasons[1].episodes) = 1
  /\ result[1].seasons[1].episodes[1].episodeNumber = 3

-----------------------------------------------------------------------------
(* Episode lines without a current anime *)

\* the lines of GrammarPool of the form [prefix] <season>x<episode>[.mp4]|<url>
EpisodeShaped ==
  {LEpNoPrefix, LEp101, LEpSpace, LEpTwoPipes, LEpPadded, LEp100, LBoth}

\* nothing has been keyed and no anime is current after the step, and a
\* return in that state gives the empty catalog
StaysNoContext ==
  /\ i <= Len(data) => (animeMap' = << >> /\ currentAnime' = << >>)
  /\ i > Len(data) => result' = << >>

\* C13 as stated: an episode-shaped line read before any title line has
\* been recognized is discarded: no anime, season or episode comes of it and
\* no anime becomes current.
OrphanEpisodeDiscarded ==
  [][(/\ pc = "parse"
      /\ currentAnime = << >>
      /\ i <= Len(data) => data[i] \in EpisodeShaped)
     => StaysNoContext]_vars

\* C13 amended: the same for the episode-shaped lines that do not match the
\* title pattern of the section.
OrphanNonTitleEpisodeDiscarded ==
  [][(/\ pc = "parse"
      /\ currentAnime = << >>
      /\ i <= Len(data) =>
           /\ data[i] \in EpisodeShaped
           /\ titleMatch(trim(data[i]), isAiring) = << >>)
     => StaysNoContext]_vars

\* three episode lines have been read with no title line before them and
\* the catalog returned is empty
OrphanEpisodeWitness ==
  /\ pc = "done"
  /\ Len(data) = 3
  /\ data[1] = LEp101
  /\ data[2] = LEpNoPrefix
  /\ data[3] = LEpPadded
  /\ currentAnime = << >>
  /\ result = << >>

-----------------------------------------------------------------------------
(* Lines that match neither pattern *)

\* for (let i = 0; i < lines.length; i++): the loop moves on to the
\* following line
LoopStep ==
  /\ pc = "parse"
  /\ i <= Len(data)
  /\ i' = i + 1
  /\ pc' = pc

\* the loop is left and the function returns
LoopExit ==
  /\ pc = "parse"
  /\ i > Len(data)
  /\ i' = i
  /\ pc' = "done"

\* a run whose loop keeps moving on: the code is sequential and nothing in
\* the loop body waits
GrammarFairSpec == GrammarSpec /\ WF_<<i, pc>>(LoopStep \/ LoopExit)

\* line k of data, trimmed, is blank or matches neither the title pattern
\* of the section nor the episode pattern
Unmatched(k) ==
  \/ trim(data[k]) = << >>
  \/ /\ titleMatch(trim(data[k]), isAiring) = << >>
     /\ episodeMatch(trim(data[k])) = << >>

\* C14: the loop body on a blank line, or on a line that matches neither
\* pattern, changes neither the working catalog nor the current anime, and
\* every run of processAnimeData reaches its return.
UnmatchedLineFrame ==
  /\ [][(pc = "parse" /\ i <= Len(data) /\ Unmatched(i)) =>
          /\ animeMap' = animeMap
          /\ currentAnime' = currentAnime
          /\ i' = i + 1]_vars
  /\ <>(pc = "done")

\* a comment line, a blank line and a line with a pipe that is no episode
\* have been read under a current anime, which is returned as it was
UnmatchedLineWitness ==
  /\ pc = "done"
  /\ Len(data) = 3
  /\ data[1] = LTitleLower
  /\ data[2] \in {LJunk, LBlank}
  /\ data[3] \in {LPipeJunk, LEpNoPrefix, LTitleDay}
  /\ Unmatched(3)
  /\ currentAnime = <<<<"n","a","r","u","t","o">>>>
  /\ Len(result) = 1
  /\ result[1].seasons = << >>

-----------------------------------------------------------------------------
(* Failures of token issuance *)

\* C15: a token request made while JWT_SECRET is absent or shorter than 32
\* characters is answered with the configuration error and no token, and a
\* request with an empty or missing episodeId is answered 400 with the
\* validation error and no token.
IssuanceFailureKinds ==
  last.op = "token" =>
    /\ (JWT_SECRET.length < 32 /\ last.req # << >>) =>
         last = [op |-> "token", req |-> last.req, time |-> last.time]
                  @@ Failure(500, "Error de configuracion del servidor")
    /\ last.req = << >> =>
         last = [op |-> "token", req |-> last.req, time |-> last.time]
                  @@ Failure(400, "ID de episodio requerido")

-----------------------------------------------------------------------------
(* References that cannot be decoded *)

\* C16: a request whose token verifies and whose reference does not split
\* into an anime id, a season number and an episode number is answered as a
\* malformed reference: not with 404, not with 403 and not with 500.
MalformedReferenceDistinct ==
  (/\ last.op = "stream"
   /\ last.verified
   /\ last.header[2].jwt[1].payload.episodeId = RefMalformed)
  => last.status \notin {403, 404, 500}

-----------------------------------------------------------------------------
(* The lookup behind a verified token *)

\* the seasons of anime d whose number, in decimal, is the segment seg
SeasonsNumbered(d, seg) ==
  {k \in 1..Len(d.seasons) : <<toString(d.seasons[k].seasonNumber)>> = seg}

\* the episodes of season s whose number, in decimal, is the segment seg
EpisodesNumberedIn(s, seg) ==
  {k \in 1..Len(s.episodes) : <<toString(s.episodes[k].episodeNumber)>> = seg}

\* C17: the lookup for the decoded (anime id, season, episode) of a verified
\* token answers 404 when no stored anime has the id, when the anime has no
\* season of that number and when the season has no episode of that number;
\* otherwise it answers 200 with success and the videoUrl, the anime's name
\* and the episodeNumber of the records matched, and nothing else.
LookupAnswers ==
  (last.op = "stream" /\ last.verified) =>
    LET p      == last.parts
        animes == {d \in store : <<d.id>> = p.animeId}
    IN  /\ animes = {} => last.status = 404
        /\ \A d \in animes :
             LET ss == SeasonsNumbered(d, p.seasonNum)
             IN  /\ ss = {} => last.status = 404
                 /\ \A k \in ss :
                      LET es == EpisodesNumberedIn(d.seasons[k], p.episodeNum)
                      IN  /\ es = {} => last.status = 404
                          /\ \A e \in es :
                               /\ last.status = 200
                               /\ last.body =
                                    [success |-> TRUE,
                                     videoUrl |-> d.seasons[k].episodes[e].videoUrl,
                                     animeName |-> d.name,
                                     episodeNumber |->
                                       d.seasons[k].episodes[e].episodeNumber]

\* a verified token for "naruto-1-9" has been answered 404: the anime and
\* its season 1 are stored, an episode 9 is not
LookupWitness ==
  /\ last.op = "stream"
  /\ last.verified
  /\ last.header[2].jwt[1].payload.episodeId = RefMissing
  /\ \E d \in store :
       /\ <<d.id>> = last.parts.animeId
       /\ SeasonsNumbered(d, last.parts.seasonNum) # {}
  /\ last.status = 404

-----------------------------------------------------------------------------
(* The slug *)

\* C18: the id of every record is a function of its name alone, is made of
\* small letters, digits and '-' only, has no two '-' in a row and no '-' at
\* either end, and is empty when the name has no letter or digit.
SlugWellFormed ==
  \A k \in 1..Len(animeMap) :
    LET id        == animeMap[k].val.id
        animeName == animeMap[k].val.name
    IN  /\ id = animeMap[k].key
        /\ \A m \in 1..Len(id) :
             IsLowerAlnum(id[m]) \/ id[m] = "-"
        /\ \A m \in 1..(Len(id) - 1) : ~(id[m] = "-" /\ id[m + 1] = "-")
        /\ id # << >> => (id[1] # "-" /\ id[Len(id)] # "-")
        /\ (\A m \in 1..Len(animeName) :
              ~IsLowerAlnum(toLowerCase(animeName)[m]))
             => id = << >>
        /\ id = slug(animeName)

\* the name "A! b", with a capital and two characters in a row that are
\* neither letters nor digits, has been given the id "a-b"
SlugWitness ==
  /\ pc = "done"
  /\ Len(result) = 1
  /\ result[1].name = <<"A","!"," ","b">>
  /\ result[1].id = <<"a","-","b">>

-----------------------------------------------------------------------------
(* The url of an episode line *)

\* the episodes of season 1 of the anime keyed id in map
Season1Episodes(map, id) ==
  LET seasons == ObjGet(map, id).seasons
  IN  IF ObjHas(seasons, <<"1">>) THEN ObjGet(seasons, <<"1">>).episodes
      ELSE << >>

\* the loop body has added one episode to season 1 of the current anime,
\* with url as its videoUrl
PushedUrl(url) ==
  /\ currentAnime' = currentAnime
  /\ LET before == Season1Episodes(animeMap, currentAnime[1])
         after  == Season1Episodes(animeMap', currentAnime[1])
     IN  /\ Len(after) = Len(before) + 1
         /\ SubSeq(after, 1, Len(before)) = before
         /\ after[Len(after)].videoUrl = url

\* the episode lines whose url neither follows white space nor comes after
\* a second '|'
PlainUrlCases ==
  /\ data[i] = LEp101 =>
       PushedUrl(<<"h","t","t","p",":","/","/","c","d","n","/","x",".","m","p","4">>)
  /\ data[i] = LEpPadded => PushedUrl(<<"a">>)
  /\ data[i] = LEp100 => PushedUrl(<<"b">>)

\* C19 as stated: the videoUrl of the episode added for an episode line is
\* the text that follows the first '|' of the line, character for character,
\* white space right after the '|' included.
UrlAfterFirstPipeVerbatim ==
  [][(pc = "parse" /\ i <= Len(data) /\ currentAnime # << >>) =>
       /\ PlainUrlCases
       /\ data[i] = LEpSpace => PushedUrl(<<" ","w">>)
       /\ data[i] = LEpTwoPipes =>
            PushedUrl(<<"B"," ","1","x","0","4","|","u">>)]_vars

\* C19 amended: the videoUrl is the text that follows the '|' closing the
\* <season>x<episode>[.mp4] token, without the white space around it.
UrlAfterTokenPipeTrimmed ==
  [][(pc = "parse" /\ i <= Len(data) /\ currentAnime # << >>) =>
       /\ PlainUrlCases
       /\ data[i] = LEpSpace => PushedUrl(<<"w">>)
       /\ data[i] = LEpTwoPipes => PushedUrl(<<"u">>)]_vars

\* an anime has got the episode of "Naruto 1x03| w" and that of
\* "A|B 1x04|u", with the urls "w" and "u"
UrlWitness ==
  /\ pc = "done"
  /\ data = <<LTitleLower, LEpSpace, LEpTwoPipes>>
  /\ Len(result) = 1
  /\ Len(result[1].seasons) = 1
  /\ Len(result[1].seasons[1].episodes) = 2
  /\ result[1].seasons[1].episodes[1].videoUrl = <<"w">>
  /\ result[1].seasons[1].episodes[2].videoUrl = <<"u">>

-----------------------------------------------------------------------------
(* The name and the file name of an episode *)

\* 'Episodio ' followed by n in decimal, for the episode numbers of GrammarPool
EpisodeNameOf(n) ==
  CASE n = 1   -> <<"E","p","i","s","o","d","i","o"," ","1">>
    [] n = 3   -> <<"E","p","i","s","o","d","i","o"," ","3">>
    [] n = 4   -> <<"E","p","i","s","o","d","i","o"," ","4">>
    [] n = 7   -> <<"E","p","i","s","o","d","i","o"," ","7">>
    [] n = 100 -> <<"E","p","i","s","o","d","i","o"," ","1","0","0">>

\* '1x' followed by n in at least two digits and '.mp4'
FileNameOf(n) ==
  CASE n = 1   -> <<"1","x","0","1",".","m","p","4">>
    [] n = 3   -> <<"1","x","0","3",".","m","p","4">>
    [] n = 4   -> <<"1","x","0","4",".","m","p","4">>
    [] n = 7   -> <<"1","x","0","7",".","m","p","4">>
    [] n = 100 -> <<"1","x","1","0","0",".","m","p","4">>

\* the episode number written on an episode line of GrammarPool
EpisodeNumberOn(line) ==
  CASE line = LEp101      -> 1
    [] line = LEpSpace    -> 3
    [] line = LEpTwoPipes -> 4
    [] line = LEpPadded   -> 7
    [] line = LEp100      -> 100

\* C20: every episode is named 'Episodio ' + its number in plain decimal
\* and its file is '<season>x<number in at least two digits>.mp4', both from
\* the parsed integers: '01x007' gives number 7, 'Episodio 7' and
\* '1x07.mp4', episode 100 gives '1x100.mp4', whatever the prefix.
EpisodeNaming ==
  /\ \A a \in 1..Len(animeMap) :
       \A s \in 1..Len(animeMap[a].val.seasons) :
         LET season == animeMap[a].val.seasons[s].val
         IN  /\ season.seasonNumber = 1
             /\ \A e \in 1..Len(season.episodes) :
                  /\ season.episodes[e].episodeNumber \in {1, 3, 4, 7, 100}
                  /\ season.episodes[e].name
                       = EpisodeNameOf(season.episodes[e].episodeNumber)
                  /\ season.episodes[e].fileName
                       = FileNameOf(season.episodes[e].episodeNumber)
  /\ (/\ pc = "parse"
      /\ i > 1
      /\ currentAnime # << >>
      /\ data[i - 1] \in {LEp101, LEpSpace, LEpTwoPipes, LEpPadded, LEp100})
     => LET eps == Season1Episodes(animeMap, currentAnime[1])
        IN  /\ eps # << >>
            /\ eps[Len(eps)].episodeNumber = EpisodeNumberOn(data[i - 1])

\* the lines "Naruto 01x007|a" and "Naruto 1x100|b" gave the episodes
\* 7 and 100 of season 1, named and filed by their parsed numbers
EpisodeNamingWitness ==
  /\ pc = "done"
  /\ data = <<LTitleLower, LEp100, LEpPadded>>
  /\ Len(result) = 1
  /\ Len(result[1].seasons) = 1
  /\ Len(result[1].seasons[1].episodes) = 2
  /\ result[1].seasons[1].episodes[1].fileName = <<"1","x","0","7",".","m","p","4">>
  /\ result[1].seasons[1].episodes[1].name = <<"E","p","i","s","o","d","i","o"," ","7">>
  /\ result[1].seasons[1].episodes[2].fileName = <<"1","x","1","0","0",".","m","p","4">>

-----------------------------------------------------------------------------
(* The numbers of seasons and episodes *)

\* C21: every seasonNumber and every episodeNumber of the catalog returned
\* is an integer of at least 1.
NumbersPositive ==
  pc = "done" =>
    \A a \in 1..Len(result) :
      \A s \in 1..Len(result[a].seasons) :
        /\ result[a].seasons[s].seasonNumber \in Nat
        /\ result[a].seasons[s].seasonNumber >= 1
        /\ \A e \in 1..Len(result[a].seasons[s].episodes) :
             /\ result[a].seasons[s].episodes[e].episodeNumber \in Nat
             /\ result[a].seasons[s].episodes[e].episodeNumber >= 1

-----------------------------------------------------------------------------
(* The order of the two patterns *)

\* the positions <<anime, season, episode>> of the episodes held in map
EpisodeSlots(map) ==
  {p \in (1..Len(map)) \X (1..(MaxLines + 1)) \X (1..(MaxLines + 1)) :
     /\ p[2] <= Len(map[p[1]].val.seasons)
     /\ p[3] <= Len(map[p[1]].val.seasons[p[2]].val.episodes)}

\* the records keyed otherwise than by id are after the step what they were
OthersKept(id) ==
  \A k \in 1..Len(animeMap) :
    animeMap[k].key # id =>
      /\ ObjHas(animeMap', animeMap[k].key)
      /\ ObjGet(animeMap', animeMap[k].key) = animeMap[k].val

\* the loop body has started the anime name of year, made it current, and
\* touched no other record
TitleTaken(animeName, year) ==
  /\ StartsRecord(TitleRecord(animeName, year, << >>))
  /\ OthersKept(slug(animeName))

\* C22: a line that matches the title pattern starts a new anime and makes
\* it current, with or without a current anime and also when it holds a '|'
\* and matches the episode pattern; an episode is added only by a line that
\* is no title, holds a '|' and is read while an anime is current.
TitleTriedFirst ==
  [][(pc = "parse" /\ i <= Len(data)) =>
       /\ data[i] = LBoth =>
            TitleTaken(<<"A"," ","1","x","0","1","|","u">>, 2020)
       /\ data[i] = LTitleLower =>
            TitleTaken(<<"n","a","r","u","t","o","!">>, 2002)
       /\ data[i] = LTitle86 => TitleTaken(<<"8","6">>, 2021)
       /\ data[i] = LTitle =>
            TitleTaken(<<"O","n","e"," ","P","i","e","c","e">>, 1999)
       /\ Cardinality(EpisodeSlots(animeMap')) > Cardinality(EpisodeSlots(animeMap))
            => /\ data[i] \in {LEp101, LEpZero}
               /\ currentAnime # << >>
               /\ currentAnime' = currentAnime
               /\ Cardinality(EpisodeSlots(animeMap'))
                    = Cardinality(EpisodeSlots(animeMap)) + 1
       /\ (data[i] \in {LEp101, LEpZero} /\ currentAnime # << >>) =>
            Cardinality(EpisodeSlots(animeMap'))
              = Cardinality(EpisodeSlots(animeMap)) + 1]_vars

\* "A 1x01|u 2020" has been read while "naruto" was current: it is the
\* current anime now and "naruto" has no episode
TitleTriedFirstWitness ==
  /\ pc = "parse"
  /\ i = 3
  /\ data[1] = LTitleLower
  /\ data[2] = LBoth
  /\ currentAnime = <<<<"a","-","1","x","0","1","-","u">>>>
  /\ ObjGet(animeMap, <<"n","a","r","u","t","o">>).seasons = << >>
  /\ ObjGet(animeMap, <<"a","-","1","x","0","1","-","u">>).seasons = << >>

-----------------------------------------------------------------------------
(* The order of the catalog returned *)

\* the title lines of ClassifyPool
ClassifyTitles == {LTitleLower, LTitle86, LTitle, LBoth}

\* the id a title line of ClassifyPool gives
ClassifyTitleId(line) ==
  CASE line = LTitleLower -> <<"n","a","r","u","t","o">>
    [] line = LTitle86    -> <<"8","6">>
    [] line = LTitle      -> <<"o","n","e","-","p","i","e","c","e">>
    [] line = LBoth       -> <<"a","-","1","x","0","1","-","u">>

\* the first line of data that is a title line giving id
FirstTitle(id) ==
  SetMin({k \in 1..Len(data) :
            data[k] \in ClassifyTitles /\ ClassifyTitleId(data[k]) = id})

\* C27: the records of the catalog returned stand in the order in which
\* their ids first occur on title lines of the text, ids made of digits
\* included.
OutputInTitleOrder ==
  pc = "done" =>
    \A a, b \in 1..Len(result) :
      a < b => FirstTitle(result[a].id) < FirstTitle(result[b].id)

-----------------------------------------------------------------------------
(* The route parameter of GET /api/stream/:episodeId *)

\* "naruto-1-2"
RefOther == <<"n","a","r","u","t","o","-","1","-","2">>

\* C25: the response to GET /api/stream/:episodeId is the same for every
\* value of :episodeId: it is fixed by the Authorization header and the
\* store, and for a token that verifies it is the answer of the lookup for
\* the reference inside the token.
PathParameterIgnored ==
  /\ \A header \in HeaderPool :
       \A p, q \in ParamPool : getStream(p, header) = getStream(q, header)
  /\ (last.op = "stream" /\ last.verified) =>
       LET r == resolveEpisode(last.header[2].jwt[1].payload.episodeId)
       IN  /\ last.status = r.status
           /\ last.body = r.body
           /\ last.parts = r.parts

\* a token for "naruto-1-2" has been redeemed on a path that names another
\* episode (every path of ParamPool does) and the answer is episode 2
PathParameterWitness ==
  /\ last.op = "stream"
  /\ last.verified
  /\ last.header[2].jwt[1].payload.episodeId = RefOther
  /\ RefOther \notin ParamPool
  /\ last.status = 200
  /\ last.body.episodeNumber = 2
  /\ last.body.videoUrl = <<"y">>

-----------------------------------------------------------------------------
(* The episode behind a successful redemption *)

\* C26: when a token issued for the reference of a stored episode is
\* redeemed with success, the videoUrl returned is that episode's: the
\* reference "a-1-2-3" of anime "a-1", season 2, episode 3 does not get the
\* videoUrl of anime "a", season 1, episode 2.
SuccessReturnsReferencedEpisode ==
  \A x \in EpisodesOf(store) :
    (/\ PresentedIssued # << >>
     /\ PresentedIssued[1].payload.episodeId = RefOf(x)
     /\ last.status = 200)
    => /\ last.body.videoUrl = x[1].seasons[x[2]].episodes[x[3]].videoUrl
       /\ last.body.animeName = x[1].name
       /\ last.body.episodeNumber
            = x[1].seasons[x[2]].episodes[x[3]].episodeNumber

-----------------------------------------------------------------------------
(* migrateData as a sequence of store operations *)

\* "- 2001"
LTitleDash == <<"-"," ","2","0","0","1">>

\* the airing texts of the ingestion runs
AiringTexts ==
  {<< >>, <<LTitleDay, LEp101>>, <<LTitleDay, LEp101, LTitle86>>}

\* the finished texts of the ingestion runs
FinishedTexts ==
  {<< >>, <<LTitleLower, LEp102>>, <<LTitle, LEpOnePiece, LTitleLower>>,
   <<LTitleDash, LTitle>>}

\* the collection before the run: empty, or left by an earlier run
OldStores == {{}, migrateData({}, <<LTitleDay, LEp102>>, <<LTitle>>)}

\* a run that has parsed its two texts and is about to save the first record
NewRun(airingAnimeData, finishedAnimeData) ==
  [animes   |-> processAnimeData(airingAnimeData, TRUE)
                  \o processAnimeData(finishedAnimeData, FALSE),
   k        |-> 1,
   existing |-> FALSE,
   at       |-> "findOne"]

\* an update that leaves the matching document as it was
updateOne_ignored(coll, anime) == coll

\* Anime.updateOne({id: anime.id}, anime) without upsert: the fields of the
\* matching document (day included, null when absent) are set to those of
\* anime
updateOne(coll, anime) ==
  IF \E d \in coll : d.id = anime.id
  THEN {d \in coll : d.id # anime.id} \cup {anime}
  ELSE coll

\* Anime.create(anime) under the schema {id: unique, required}: << >> when
\* the validation or the unique index refuses the document
create(coll, anime) ==
  IF anime.id = << >> THEN << >>
  ELSE IF \E d \in coll : d.id = anime.id THEN << >>
  ELSE <<coll \cup {anime}>>

\* what the steps of migrateData leave alone
ingestFrame ==
  <<data, isAiring, i, animeMap, currentAnime, result, pc, variant,
    JWT_SECRET, TOKEN_EXPIRES, now, issued, last, okLog, rejLog>>

\* const existing = await Anime.findOne({ id: anime.id })
FindOne ==
  /\ pc = "ingest"
  /\ \E r \in DOMAIN runs :
    /\ runs[r].at = "findOne"
    /\ runs[r].k <= Len(runs[r].animes)
    /\ runs' = [runs EXCEPT
                  ![r].existing = \E d \in store : d.id = runs[r].animes[runs[r].k].id,
                  ![r].at = "write"]
    /\ UNCHANGED store
    /\ UNCHANGED ingestFrame

\* await Anime.updateOne({ id: anime.id }, anime)
UpdateOne ==
  /\ pc = "ingest"
  /\ \E r \in DOMAIN runs :
    /\ runs[r].at = "write"
    /\ runs[r].existing
    /\ store' = updateOne(store, runs[r].animes[runs[r].k])
    /\ runs' = [runs EXCEPT ![r].k = @ + 1, ![r].at = "findOne"]
    /\ UNCHANGED ingestFrame

\* await Anime.create(anime); a rejection is caught by the try around the
\* whole run, which exits with status 1
Create ==
  /\ pc = "ingest"
  /\ \E r \in DOMAIN runs :
    /\ runs[r].at = "write"
    /\ ~runs[r].existing
    /\ LET created == create(store, runs[r].animes[runs[r].k])
       IN  IF created = << >>
           THEN /\ store' = store
                /\ runs' = [runs EXCEPT ![r].at = "failed"]
           ELSE /\ store' = created[1]
                /\ runs' = [runs EXCEPT ![r].k = @ + 1, ![r].at = "findOne"]
    /\ UNCHANGED ingestFrame

\* both loops are over: process.exit(0)
Exit ==
  /\ pc = "ingest"
  /\ \E r \in DOMAIN runs :
    /\ runs[r].at = "findOne"
    /\ runs[r].k > Len(runs[r].animes)
    /\ runs' = [runs EXCEPT ![r].at = "done"]
    /\ UNCHANGED store
    /\ UNCHANGED ingestFrame

IngestNext == FindOne \/ UpdateOne \/ Create \/ Exit

\* one run of migrateData on a store
IngestInit ==
  /\ pc = "ingest"
  /\ store \in OldStores
  /\ \E a \in AiringTexts, f \in FinishedTexts : runs = <<NewRun(a, f)>>
  /\ data = << >>
  /\ isAiring = FALSE
  /\ i = 1
  /\ animeMap = << >>
  /\ currentAnime = << >>
  /\ result = << >>
  /\ variant = "server.js"
  /\ JWT_SECRET = NoSecret
  /\ TOKEN_EXPIRES = << >>
  /\ now = 0
  /\ issued = {}
  /\ last = NoRequest
  /\ okLog = {}
  /\ rejLog = {}

IngestSpec == IngestInit /\ [][IngestNext]_vars

\* two runs of migrateData over the same texts on the same store
ConcurrentInit ==
  /\ pc = "ingest"
  /\ store \in OldStores
  /\ \E a \in AiringTexts, f \in FinishedTexts :
       runs = <<NewRun(a, f), NewRun(a, f)>>
  /\ data = << >>
  /\ isAiring = FALSE
  /\ i = 1
  /\ animeMap = << >>
  /\ currentAnime = << >>
  /\ result = << >>
  /\ variant = "server.js"
  /\ JWT_SECRET = NoSecret
  /\ TOKEN_EXPIRES = << >>
  /\ now = 0
  /\ issued = {}
  /\ last = NoRequest
  /\ okLog = {}
  /\ rejLog = {}

ConcurrentSpec == ConcurrentInit /\ [][IngestNext]_vars

\* C23: when a run of migrateData has completed, the store holds, for every
\* id of the airing and the finished catalog, exactly one record with that
\* id, equal in every field to the parsed record; for an id of both
\* catalogs that is the record of the finished one.
IngestedRecords ==
  (pc = "ingest" /\ runs[1].at = "done") =>
    \A k \in 1..Len(runs[1].animes) :
      LET animes == runs[1].animes
          same   == {m \in 1..Len(animes) : animes[m].id = animes[k].id}
          stored == {d \in store : d.id = animes[k].id}
      IN  /\ Cardinality(stored) = 1
          /\ stored = {animes[SetMax(same)]}
          /\ Cardinality(same) > 1 =>
               \A d \in stored : ~d.isAiring

\* a completed run whose airing and finished texts both hold the id
\* "naruto", on a store that held an older "naruto": the record stored is
\* the finished one
IngestWitness ==
  /\ pc = "ingest"
  /\ runs[1].at = "done"
  /\ Len(runs[1].animes) = 3
  /\ runs[1].animes[1].id = <<"n","a","r","u","t","o">>
  /\ runs[1].animes[1].isAiring
  /\ runs[1].animes[3].id = <<"n","a","r","u","t","o">>
  /\ \E d \in store :
       /\ d.id = <<"n","a","r","u","t","o">>
       /\ d.name = <<"n","a","r","u","t","o","!">>
       /\ ~d.isAiring
       /\ d.seasons = << >>
  /\ Cardinality(store) = 2

\* C24: in every interleaving of two concurrent runs over the same texts,
\* neither run aborts, and when both have completed the store holds
\* exactly one record for every parsed id.
ConcurrentRunsComplete ==
  pc = "ingest" =>
    /\ \A r \in DOMAIN runs :
         (runs[r].at = "failed") =>
           runs[r].animes[runs[r].k].id = << >>
    /\ (\A r \in DOMAIN runs : runs[r].at = "done") =>
         \A k \in 1..Len(runs[1].animes) :
           Cardinality({d \in store : d.id = runs[1].animes[k].id}) = 1

\* a run aborted on a record whose id is not empty
RunAbortedOnDuplicate ==
  /\ pc = "ingest"
  /\ \E r \in DOMAIN runs :
       /\ runs[r].at = "failed"
       /\ runs[r].animes[runs[r].k].id # << >>

====
